---------------------------- MODULE Spec2Model ----------------------------
(***************************************************************************)
(* Provisional-diagnosis extraction pipeline (HackRx50/PS2-Ctrl-Alt-Elite). *)
(*                                                                         *)
(*   src/main.py   extract_diagnosis_keyword_based, process_image,         *)
(*                 process_folder                                          *)
(*   src/levl2.py  clean_and_tokenize, spell_check_strict, correct_text    *)
(*   src/icd10.py  load_icd10_codes, clean_and_tokenize, extract_icd_code  *)
(*                                                                         *)
(* Text is a sequence of one-character strings, so that lower-casing,      *)
(* regular-expression cleaning, tokenizing, joining and substring tests    *)
(* are computed character by character as Python computes them.            *)
(*                                                                         *)
(*   SpecLocator    one run of extract_diagnosis_keyword_based             *)
(*   SpecBatch      process_folder with one process_image per file         *)
(*   SpecCorrector  correct_text, then correct_text on what it returned    *)
(*   SpecResolver   one run of extract_icd_code                            *)
(***************************************************************************)
EXTENDS Integers, Sequences, FiniteSets, TLC

VARIABLES
    \* ---- extract_diagnosis_keyword_based (src/main.py:63-88)
    pages,              \* result.pages: sequence of pages, each a sequence of line contents
    page_idx,           \* position of `for page in result.pages`
    line_idx,           \* position of `for line in page.lines`
    capture_next_line,  \* main.py:73
    diagnosis_text,     \* main.py:72 (None or text)
    captured,           \* history: the <<page, line>> positions main.py:85 has read
    loc_pc,             \* "scan" | "done"
    loc_result,         \* the value returned at main.py:88
    \* ---- process_image (src/main.py:108-137), one per submitted file
    img_pc,             \* file -> the call process_image makes next, or how it ended
    diagnosis,          \* file -> main.py:117,122,129,134
    kw_none,            \* file -> the keyword scan ran and found nothing (main.py:119)
    ner_calls,          \* file -> calls of extract_diagnosis_ner_based so far
    first_ner,          \* file -> what the call at main.py:122 returned
    failures,           \* file -> the calls that raised, in order
    \* ---- process_folder (src/main.py:150-175)
    image_files,        \* main.py:154
    results,            \* main.py:160
    handled,            \* futures as_completed has yielded (main.py:165)
    logged,             \* files reported at main.py:171
    drv_pc,             \* "collect" | "done"
    saved,              \* rows passed to save_to_excel (main.py:174)
    \* ---- correct_text (src/levl2.py:45-80)
    ct_text,            \* the text argument of the running call
    medical_terms,      \* the lexicon (levl2.py:7-14): a set of lowercase terms
    spell_words,        \* the SpellChecker dictionary, most frequent word first
    words,              \* levl2.py:50
    original_words,     \* levl2.py:51
    corrected_words,    \* levl2.py:53
    has_corrections,    \* levl2.py:54
    original_idx,       \* levl2.py:56 (0-based, as in the code)
    word_idx,           \* position of `for word in words` (1-based)
    ct_pc,              \* "walk" | "returned" | "raised"
    corrected_text,     \* levl2.py:79
    pass,               \* 1: the call on the input text, 2: the call on its output
    first_text,         \* what the first call returned
    first_flag,
    emitted,            \* history: per word, what levl2.py:64-70 appended
    \* ---- extract_icd_code (src/icd10.py:37-53)
    icd10_dict,         \* icd10.py:17-20: entries in insertion order
    icd_text,           \* the corrected_text argument
    icd_words,          \* icd10.py:43
    icd_word_idx,       \* position of `for word in words`
    icd_desc_idx,       \* position of `for desc in icd10_dict.keys()`
    icd_pc,             \* "scan" | "done"
    icd_result          \* the (code, description) pair returned

locVars == <<pages, page_idx, line_idx, capture_next_line, diagnosis_text,
             captured, loc_pc, loc_result>>

imgVars == <<img_pc, diagnosis, kw_none, ner_calls, first_ner, failures>>

drvVars == <<image_files, results, handled, logged, drv_pc, saved>>

ctVars == <<ct_text, medical_terms, spell_words, words, original_words, corrected_words,
            has_corrections, original_idx, word_idx, ct_pc, corrected_text, pass,
            first_text, first_flag, emitted>>

icdVars == <<icd10_dict, icd_text, icd_words, icd_word_idx, icd_desc_idx, icd_pc,
             icd_result>>

vars == <<locVars, imgVars, drvVars, ctVars, icdVars>>

\* what each component leaves alone
notLocVars == <<imgVars, drvVars, ctVars, icdVars>>
notBatchVars == <<locVars, ctVars, icdVars>>
notCtVars == <<locVars, imgVars, drvVars, icdVars>>
notIcdVars == <<locVars, imgVars, drvVars, ctVars>>

-----------------------------------------------------------------------------
(* Characters and Python's str / re primitives                              *)

\* Python values that may be None: None itself, or a str
None == [is_none |-> TRUE, text |-> <<>>]
Str(t) == [is_none |-> FALSE, text |-> t]

\* Python truthiness of an optional str: None and "" are falsy
Truthy(v) == ~v.is_none /\ v.text # <<>>

LowerAlpha == <<"a","b","c","d","e","f","g","h","i","j","k","l","m",
                "n","o","p","q","r","s","t","u","v","w","x","y","z">>
UpperAlpha == <<"A","B","C","D","E","F","G","H","I","J","K","L","M",
                "N","O","P","Q","R","S","T","U","V","W","X","Y","Z">>
Digits == {"0","1","2","3","4","5","6","7","8","9"}

Range(s) == {s[i] : i \in DOMAIN s}

\* str.lower() on one character
LowerChar(c) ==
    IF \E i \in DOMAIN UpperAlpha : UpperAlpha[i] = c
    THEN LowerAlpha[CHOOSE i \in DOMAIN UpperAlpha : UpperAlpha[i] = c]
    ELSE c

\* str.lower()
Lower(s) == [i \in DOMAIN s |-> LowerChar(s[i])]

\* regex class \w
IsWordChar(c) == c \in Range(LowerAlpha) \cup Range(UpperAlpha) \cup Digits \cup {"_"}

\* regex class \s
IsSpaceChar(c) == c \in {" ", "\t", "\n"}

\* str.strip()
RECURSIVE LStrip(_)
LStrip(s) == IF s # <<>> /\ IsSpaceChar(Head(s)) THEN LStrip(Tail(s)) ELSE s

RECURSIVE RStrip(_)
RStrip(s) ==
    IF s # <<>> /\ IsSpaceChar(s[Len(s)]) THEN RStrip(SubSeq(s, 1, Len(s) - 1)) ELSE s

Strip(s) == RStrip(LStrip(s))

\* Python's `sub in s` on strings
IsSubstring(sub, s) ==
    \E i \in 0..(Len(s) - Len(sub)) : \A k \in 1..Len(sub) : s[i + k] = sub[k]

\* re.sub(r'\s+', ' ', text)
RECURSIVE CollapseWhitespace(_)
CollapseWhitespace(s) ==
    IF s = <<>> THEN <<>>
    ELSE IF IsSpaceChar(Head(s)) THEN <<" ">> \o CollapseWhitespace(LStrip(s))
    ELSE <<Head(s)>> \o CollapseWhitespace(Tail(s))

\* re.sub(r'[^\w\s]', ' ', text)
PunctuationToSpace(s) ==
    [i \in DOMAIN s |-> IF IsWordChar(s[i]) \/ IsSpaceChar(s[i]) THEN s[i] ELSE " "]

\* re.sub(r'\b(i)\b', ' ', text, flags=re.IGNORECASE)
RemoveLoneI(s) ==
    [i \in DOMAIN s |->
        IF /\ LowerChar(s[i]) = "i"
           /\ (i = 1 \/ ~IsWordChar(s[i - 1]))
           /\ (i = Len(s) \/ ~IsWordChar(s[i + 1]))
        THEN " " ELSE s[i]]

\* main.py clean_text
clean_text(text) == Strip(RemoveLoneI(PunctuationToSpace(CollapseWhitespace(text))))

-----------------------------------------------------------------------------
(* Section locator: extract_diagnosis_keyword_based, src/main.py:63-88      *)

\* main.py:65-70
target_keywords_set ==
    {
      <<"p","r","o","v","i","s","i","o","n","a","l"," ","d","i","a","g","n","o","s","i","s">>,
      <<"d","i","a","g","n","o","s","i","s">>,
      <<"d","x">>,
      <<"c","l","i","n","i","c","a","l"," ","i","m","p","r","e","s","s","i","o","n">>,
      <<"d","i","a","g","n","o","s","t","i","c"," ","i","m","p","r","e","s","s","i","o","n">>,
      <<"s","u","s","p","e","c","t","e","d"," ","c","o","n","d","i","t","i","o","n">>,
      <<"d","i","f","f","e","r","e","n","t","i","a","l"," ","d","i","a","g","n","o","s","i","s">>,
      <<"i","m","p","r","e","s","s","i","o","n">>,
      <<"i","n","i","t","i","a","l"," ","d","i","a","g","n","o","s","i","s">>,
      <<"m","e","d","i","c","a","l"," ","a","s","s","e","s","s","m","e","n","t">>,
      <<"d","i","s","c","h","a","r","g","e"," ","d","i","a","g","n","o","s","i","s">>,
      <<"p","r","i","m","a","r","y"," ","d","i","a","g","n","o","s","i","s">>,
      <<"s","e","c","o","n","d","a","r","y"," ","d","i","a","g","n","o","s","i","s">>
    }

\* main.py:77,80  any(keyword in text for keyword in target_keywords_set)
HasTargetKeyword(content) ==
    LET text == Lower(Strip(content))
    IN  \E keyword \in target_keywords_set : IsSubstring(keyword, text)

\* Line contents the layout service may return
Line_Dx == <<"D","x",":">>
Line_Diagnosis == <<"D","i","a","g","n","o","s","i","s">>
Line_Flu == <<"F","l","u">>
Line_Cold == <<"c","o","l","d">>
Line_LoneI == <<"I",".">>
Line_Treatment == <<"T","r","e","a","t","m","e","n","t",":"," ","r","x">>
LineSet == {Line_Dx, Line_Diagnosis, Line_Flu, Line_Cold, Line_LoneI, Line_Treatment}

MaxLines == 3   \* lines in a document, over all its pages
MaxPages == 2   \* pages in a document

\* The pages of a document whose lines `ls` lie on the pages `pg` (non-decreasing)
PagesOf(ls, pg, np) ==
    [p \in 1..np |->
        LET before == Cardinality({i \in DOMAIN ls : pg[i] < p})
            here   == Cardinality({i \in DOMAIN ls : pg[i] = p})
        IN  SubSeq(ls, before + 1, before + here)]

\* The ways to lay n lines out on np pages, in order (a page may be empty)
PageAssignments(n, np) ==
    {f \in [1..n -> 1..np] : \A i \in 1..n : \A j \in i..n : f[i] <= f[j]}

LocInit ==
    /\ \E n \in 0..MaxLines, np \in 1..MaxPages :
         \E ls \in [1..n -> LineSet], pg \in PageAssignments(n, np) :
            pages = PagesOf(ls, pg, np)
    /\ page_idx = 1
    /\ line_idx = 1
    /\ capture_next_line = FALSE
    /\ diagnosis_text = None
    /\ captured = <<>>
    /\ loc_pc = "scan"
    /\ loc_result = None

OnLine ==
    /\ loc_pc = "scan"
    /\ page_idx <= Len(pages)
    /\ line_idx <= Len(pages[page_idx])

CurrentLine == pages[page_idx][line_idx]

\* main.py:80-82  keyword line: mark for capture, continue
LocKeywordLine ==
    /\ OnLine
    /\ HasTargetKeyword(CurrentLine)
    /\ capture_next_line' = TRUE
    /\ line_idx' = line_idx + 1
    /\ UNCHANGED <<notLocVars, pages, page_idx, diagnosis_text, captured, loc_pc, loc_result>>

\* A capture that does not leave the page's line loop (no `break`)
LocCaptureLine_NoBreak ==
    /\ OnLine
    /\ ~HasTargetKeyword(CurrentLine)
    /\ capture_next_line
    /\ diagnosis_text' = Str(clean_text(CurrentLine))
    /\ captured' = Append(captured, <<page_idx, line_idx>>)
    /\ line_idx' = line_idx + 1
    /\ UNCHANGED <<notLocVars, pages, page_idx, capture_next_line, loc_pc, loc_result>>

\* main.py:84-86  capture the line, break out of `for line in page.lines`
LocCaptureLine ==
    /\ OnLine
    /\ ~HasTargetKeyword(CurrentLine)
    /\ capture_next_line
    /\ diagnosis_text' = Str(clean_text(CurrentLine))
    /\ captured' = Append(captured, <<page_idx, line_idx>>)
    /\ page_idx' = page_idx + 1
    /\ line_idx' = 1
    /\ UNCHANGED <<notLocVars, pages, capture_next_line, loc_pc, loc_result>>

\* main.py:76-84  neither a keyword line nor capturing: next line
LocSkipLine ==
    /\ OnLine
    /\ ~HasTargetKeyword(CurrentLine)
    /\ ~capture_next_line
    /\ line_idx' = line_idx + 1
    /\ UNCHANGED <<notLocVars, pages, page_idx, capture_next_line, diagnosis_text, captured,
                   loc_pc, loc_result>>

\* main.py:75-76  the page's lines are exhausted: next page
LocNextPage ==
    /\ loc_pc = "scan"
    /\ page_idx <= Len(pages)
    /\ line_idx > Len(pages[page_idx])
    /\ page_idx' = page_idx + 1
    /\ line_idx' = 1
    /\ UNCHANGED <<notLocVars, pages, capture_next_line, diagnosis_text, captured, loc_pc,
                   loc_result>>

\* main.py:88  return diagnosis_text if diagnosis_text else None
LocReturn ==
    /\ loc_pc = "scan"
    /\ page_idx > Len(pages)
    /\ loc_result' = IF Truthy(diagnosis_text) THEN diagnosis_text ELSE None
    /\ loc_pc' = "done"
    /\ UNCHANGED <<notLocVars, pages, page_idx, line_idx, capture_next_line, diagnosis_text,
                   captured>>

LocNext ==
    \/ LocKeywordLine
    \/ LocCaptureLine
    \/ LocSkipLine
    \/ LocNextPage
    \/ LocReturn

-----------------------------------------------------------------------------
(* Properties of the section locator                                        *)

Positions == UNION {{<<p, l>> : l \in DOMAIN pages[p]} : p \in DOMAIN pages}

LineAt(pos) == pages[pos[1]][pos[2]]

\* document order: pages in order, lines within a page in order
Before(a, b) == a[1] < b[1] \/ (a[1] = b[1] /\ a[2] < b[2])

\* b is the line that follows a in document order
Follows(a, b) ==
    /\ Before(a, b)
    /\ ~\E c \in Positions : Before(a, c) /\ Before(c, b)

\* The section-boundary keywords the specification names (section 4.1)
section_boundary_keywords ==
    { <<"t","r","e","a","t","m","e","n","t">>,
      <<"i","n","v","e","s","t","i","g","a","t","i","o","n">>,
      <<"s","u","r","g","i","c","a","l"," ","p","l","a","n">> }

IsBoundaryLine(content) ==
    LET text == Lower(Strip(content))
    IN  \E keyword \in section_boundary_keywords : IsSubstring(keyword, text)

KeywordPositions == {a \in Positions : HasTargetKeyword(LineAt(a))}

\* the first position of S in document order
FirstOf(S) == CHOOSE a \in S : \A b \in S : ~Before(b, a)

\* On each page, the first line after the first keyword line (in document order)
\* that holds no target keyword
CapturePositions ==
    LET kws == KeywordPositions
    IN  IF kws = {} THEN {}
        ELSE LET first == FirstOf(kws)
                 after == {b \in Positions : Before(first, b)}
             IN  {b \in after \ kws :
                    \A c \in after : (c[1] = b[1] /\ c[2] < b[2]) => c \in kws}

\* the captured position on the last page that has one
LastOf(S) == CHOOSE b \in S : \A c \in S : c[1] <= b[1]

\* C1 as stated: a keyword line followed in document order by a non-boundary line
\* makes the locator return a non-empty candidate.
C1_Original ==
    (/\ loc_pc = "done"
     /\ \E a \in Positions : \E b \in Positions :
            /\ HasTargetKeyword(LineAt(a))
            /\ Follows(a, b)
            /\ ~IsBoundaryLine(LineAt(b)))
    => Truthy(loc_result)

\* C1 amended: for a document with a keyword line, the locator returns a non-empty
\* candidate exactly when the line it captured last (per page: the first line
\* after the first keyword line that holds no target keyword; last: on the last
\* page that has one) has non-empty cleaned text.
C1_Amended ==
    (loc_pc = "done" /\ KeywordPositions # {})
    => LET caps == CapturePositions
       IN  Truthy(loc_result)
             <=> (caps # {} /\ clean_text(LineAt(LastOf(caps))) # <<>>)

C1_Witness ==
    /\ loc_pc = "done"
    /\ Truthy(loc_result)
    /\ \E a \in KeywordPositions : \E b \in CapturePositions :
          Follows(a, b) /\ ~IsBoundaryLine(LineAt(b))

\* C9 as stated: once capturing has started, a line holding a section-boundary
\* keyword is never captured, and its content is never the returned diagnosis.
C9_Original ==
    /\ \A i \in DOMAIN captured : ~IsBoundaryLine(LineAt(captured[i]))
    /\ (loc_pc = "done" /\ Truthy(loc_result))
         => \A pos \in Positions :
               IsBoundaryLine(LineAt(pos)) => loc_result # Str(clean_text(LineAt(pos)))

FragmentIndexes == {i \in DOMAIN captured : clean_text(LineAt(captured[i])) # <<>>}

FirstFragment == CHOOSE i \in FragmentIndexes : \A j \in FragmentIndexes : i <= j

\* C10 as stated: the traversal stops once one non-empty fragment has been
\* captured: no later line is captured, and the returned diagnosis is the
\* cleaned content of that first captured fragment.
C10_Original ==
    FragmentIndexes # {}
    => /\ FirstFragment = Len(captured)
       /\ loc_pc = "done"
            => loc_result = Str(clean_text(LineAt(captured[FirstFragment])))

-----------------------------------------------------------------------------
(* Fallback coordinator and batch driver: process_image (src/main.py:108-137)*)
(* and process_folder (src/main.py:150-175)                                 *)

NumFiles == 2   \* image files in the folder, at most

AllFiles == 1..NumFiles

\* main.py:102  the sentinel extract_diagnosis_ner_based returns for no entity
NoDiagnosisFound == <<"N","o"," ","P","r","o","v","i","s","i","o","n","a","l"," ","D","i","a","g","n","o","s","i","s"," ","F","o","u","n","d">>

\* main.py:125  the label phrase the entity-extraction output may echo
LabelPhrase == <<"P","r","o","v","i","s","i","o","n","a","l"," ","D","i","a","g","n","o","s","i","s">>

Text_Flu == <<"F","l","u">>
Text_Echo == <<"P","r","o","v","i","s","i","o","n","a","l"," ","D","i","a","g","n","o","s","i","s",","," ","F","l","u">>

\* What extract_diagnosis_ner_based may return (main.py:102)
NerOutputs == {Text_Flu, Text_Echo, NoDiagnosisFound}

\* What a successful keyword scan may return (main.py:88)
KeywordOutputs == {Text_Flu}

\* Calls made inside the try block (main.py:112-129)
TrySites == {"layout", "keyword", "ner", "layout_retry", "ner_retry"}

\* Calls made inside the except handler (main.py:131-134)
HandlerSites == {"ocr", "ocr_ner"}

\* A try block that ends before the retry (main.py:127-129 left outside it)
OnException_NarrowTry(site) ==
    IF site \in {"layout", "keyword", "ner"} THEN "ocr" ELSE "raised"

\* main.py:112,131  where control goes when the call at `site` raises
OnException(site) == IF site \in TrySites THEN "ocr" ELSE "raised"

\* A retry taken whatever the first entity extraction returned
NeedsRetry_Always(d) == TRUE

\* main.py:125
NeedsRetry(d) == d = NoDiagnosisFound \/ IsSubstring(LabelPhrase, d)

LocIdle ==
    /\ pages = <<>>
    /\ page_idx = 1
    /\ line_idx = 1
    /\ capture_next_line = FALSE
    /\ diagnosis_text = None
    /\ captured = <<>>
    /\ loc_pc = "done"
    /\ loc_result = None

BatchInit ==
    /\ image_files \in {1..n : n \in 0..NumFiles}
    /\ img_pc = [f \in AllFiles |-> IF f \in image_files THEN "queued" ELSE "absent"]
    /\ diagnosis = [f \in AllFiles |-> None]
    /\ kw_none = [f \in AllFiles |-> FALSE]
    /\ ner_calls = [f \in AllFiles |-> 0]
    /\ first_ner = [f \in AllFiles |-> None]
    /\ failures = [f \in AllFiles |-> <<>>]
    /\ results = <<>>
    /\ handled = {}
    /\ logged = {}
    /\ drv_pc = "collect"
    /\ saved = <<>>

BatchIdle ==
    /\ image_files = {}
    /\ img_pc = [f \in AllFiles |-> "absent"]
    /\ diagnosis = [f \in AllFiles |-> None]
    /\ kw_none = [f \in AllFiles |-> FALSE]
    /\ ner_calls = [f \in AllFiles |-> 0]
    /\ first_ner = [f \in AllFiles |-> None]
    /\ failures = [f \in AllFiles |-> <<>>]
    /\ results = <<>>
    /\ handled = {}
    /\ logged = {}
    /\ drv_pc = "done"
    /\ saved = <<>>

\* main.py:163  a pool worker picks up the submitted task
ImgStart(f) ==
    /\ img_pc[f] = "queued"
    /\ img_pc' = [img_pc EXCEPT ![f] = "layout"]
    /\ UNCHANGED <<notBatchVars, diagnosis, kw_none, ner_calls, first_ner, failures, drvVars>>

\* main.py:114  read_image_with_document_intelligence returns
ImgLayout(f) ==
    /\ img_pc[f] = "layout"
    /\ img_pc' = [img_pc EXCEPT ![f] = "keyword"]
    /\ UNCHANGED <<notBatchVars, diagnosis, kw_none, ner_calls, first_ner, failures, drvVars>>

\* main.py:117-119  the keyword scan returns a diagnosis
ImgKeywordFound(f) ==
    /\ img_pc[f] = "keyword"
    /\ \E d \in KeywordOutputs : diagnosis' = [diagnosis EXCEPT ![f] = Str(d)]
    /\ img_pc' = [img_pc EXCEPT ![f] = "returned"]
    /\ UNCHANGED <<notBatchVars, kw_none, ner_calls, first_ner, failures, drvVars>>

\* main.py:117-121  the keyword scan returns None
ImgKeywordNone(f) ==
    /\ img_pc[f] = "keyword"
    /\ diagnosis' = [diagnosis EXCEPT ![f] = None]
    /\ kw_none' = [kw_none EXCEPT ![f] = TRUE]
    /\ img_pc' = [img_pc EXCEPT ![f] = "ner"]
    /\ UNCHANGED <<notBatchVars, ner_calls, first_ner, failures, drvVars>>

\* main.py:122-125  entity extraction over the layout text returns
ImgNer(f) ==
    /\ img_pc[f] = "ner"
    /\ \E d \in NerOutputs :
         /\ diagnosis' = [diagnosis EXCEPT ![f] = Str(d)]
         /\ first_ner' = [first_ner EXCEPT ![f] = Str(d)]
         /\ img_pc' = [img_pc EXCEPT ![f] =
                          IF NeedsRetry(d) THEN "layout_retry" ELSE "returned"]
    /\ ner_calls' = [ner_calls EXCEPT ![f] = @ + 1]
    /\ UNCHANGED <<notBatchVars, kw_none, failures, drvVars>>

\* main.py:127-128  the second layout call returns
ImgLayoutRetry(f) ==
    /\ img_pc[f] = "layout_retry"
    /\ img_pc' = [img_pc EXCEPT ![f] = "ner_retry"]
    /\ UNCHANGED <<notBatchVars, diagnosis, kw_none, ner_calls, first_ner, failures, drvVars>>

\* main.py:129  the second entity extraction returns; its result is accepted
ImgNerRetry(f) ==
    /\ img_pc[f] = "ner_retry"
    /\ \E d \in NerOutputs : diagnosis' = [diagnosis EXCEPT ![f] = Str(d)]
    /\ ner_calls' = [ner_calls EXCEPT ![f] = @ + 1]
    /\ img_pc' = [img_pc EXCEPT ![f] = "returned"]
    /\ UNCHANGED <<notBatchVars, kw_none, first_ner, failures, drvVars>>

\* main.py:133  extract_text_tesseract returns
ImgTesseract(f) ==
    /\ img_pc[f] = "ocr"
    /\ img_pc' = [img_pc EXCEPT ![f] = "ocr_ner"]
    /\ UNCHANGED <<notBatchVars, diagnosis, kw_none, ner_calls, first_ner, failures, drvVars>>

\* main.py:134  entity extraction over the OCR text returns
ImgOcrNer(f) ==
    /\ img_pc[f] = "ocr_ner"
    /\ \E d \in NerOutputs : diagnosis' = [diagnosis EXCEPT ![f] = Str(d)]
    /\ ner_calls' = [ner_calls EXCEPT ![f] = @ + 1]
    /\ img_pc' = [img_pc EXCEPT ![f] = "returned"]
    /\ UNCHANGED <<notBatchVars, kw_none, first_ner, failures, drvVars>>

\* main.py:112-134  the call process_image is making raises
ImgCallRaises(f) ==
    /\ img_pc[f] \in TrySites \cup HandlerSites
    /\ failures' = [failures EXCEPT ![f] = Append(@, img_pc[f])]
    /\ ner_calls' = [ner_calls EXCEPT ![f] =
                        IF img_pc[f] \in {"ner", "ner_retry", "ocr_ner"} THEN @ + 1 ELSE @]
    /\ img_pc' = [img_pc EXCEPT ![f] = OnException(img_pc[f])]
    /\ UNCHANGED <<notBatchVars, diagnosis, kw_none, first_ner, drvVars>>

\* main.py:156-158  no image file: nothing is submitted and nothing is saved
DrvNoImages ==
    /\ drv_pc = "collect"
    /\ image_files = {}
    /\ drv_pc' = "done"
    /\ UNCHANGED <<notBatchVars, imgVars, image_files, results, handled, logged, saved>>

\* main.py:165-169  as_completed yields a future that returned
DrvCollectResult(f) ==
    /\ drv_pc = "collect"
    /\ f \in image_files \ handled
    /\ img_pc[f] = "returned"
    /\ results' = Append(results, <<f, diagnosis[f]>>)
    /\ handled' = handled \cup {f}
    /\ UNCHANGED <<notBatchVars, imgVars, image_files, logged, drv_pc, saved>>

\* main.py:165-171  as_completed yields a future that raised
DrvCollectError(f) ==
    /\ drv_pc = "collect"
    /\ f \in image_files \ handled
    /\ img_pc[f] = "raised"
    /\ logged' = logged \cup {f}
    /\ handled' = handled \cup {f}
    /\ UNCHANGED <<notBatchVars, imgVars, image_files, results, drv_pc, saved>>

\* main.py:173-175  every future has been yielded: save the rows
DrvSave ==
    /\ drv_pc = "collect"
    /\ image_files # {}
    /\ handled = image_files
    /\ saved' = results
    /\ drv_pc' = "done"
    /\ UNCHANGED <<notBatchVars, imgVars, image_files, results, handled, logged>>

BatchNext ==
    \/ \E f \in AllFiles :
         \/ ImgStart(f)
         \/ ImgLayout(f)
         \/ ImgKeywordFound(f)
         \/ ImgKeywordNone(f)
         \/ ImgNer(f)
         \/ ImgLayoutRetry(f)
         \/ ImgNerRetry(f)
         \/ ImgTesseract(f)
         \/ ImgOcrNer(f)
         \/ ImgCallRaises(f)
         \/ DrvCollectResult(f)
         \/ DrvCollectError(f)
    \/ DrvNoImages
    \/ DrvSave

-----------------------------------------------------------------------------
(* Lexicon-constrained corrector: src/levl2.py:16-80                        *)

MaxTextLen == 3   \* characters in the text handed to correct_text

TextChars == {"a", "A", "b", ".", " "}

Texts == UNION {[1..n -> TextChars] : n \in 0..MaxTextLen}

Word_a == <<"a">>
Word_b == <<"b">>
Word_ab == <<"a", "b">>
Word_ba == <<"b", "a">>

\* The lexicons load_medical_terms may yield (levl2.py:7-14)
Lexicons == SUBSET {Word_a, Word_ab}

\* The dictionaries the SpellChecker may hold, most frequent word first
SpellDictionaries == {<<Word_b, Word_ab>>, <<Word_ab, Word_b>>, <<Word_ba>>}

\* the letters SpellChecker edits with
SpellLetters == {"a", "b"}

IsWordOrSpace(c) == IsWordChar(c) \/ IsSpaceChar(c)

\* re.sub(r'[^\w\s]', '', text)
RemovePunctuation(s) == SelectSeq(s, IsWordOrSpace)

\* re.sub(r'[^\w]', '', token)
StripNonWord(s) == SelectSeq(s, IsWordChar)

\* the leading run of characters satisfying Test
RECURSIVE RunLen(_, _)
RunLen(s, space) ==
    IF s # <<>> /\ IsSpaceChar(Head(s)) = space THEN 1 + RunLen(Tail(s), space) ELSE 0

\* re.findall(r'\S+', s): the whitespace-delimited tokens
RECURSIVE FindNonSpace(_)
FindNonSpace(s) ==
    IF s = <<>> THEN <<>>
    ELSE IF IsSpaceChar(Head(s)) THEN FindNonSpace(Tail(s))
    ELSE LET n == RunLen(s, FALSE)
         IN  <<SubSeq(s, 1, n)>> \o FindNonSpace(SubSeq(s, n + 1, Len(s)))

\* re.findall(r'\w+', s)
RECURSIVE WordRunLen(_)
WordRunLen(s) == IF s # <<>> /\ IsWordChar(Head(s)) THEN 1 + WordRunLen(Tail(s)) ELSE 0

RECURSIVE FindWords(_)
FindWords(s) ==
    IF s = <<>> THEN <<>>
    ELSE IF ~IsWordChar(Head(s)) THEN FindWords(Tail(s))
    ELSE LET n == WordRunLen(s)
         IN  <<SubSeq(s, 1, n)>> \o FindWords(SubSeq(s, n + 1, Len(s)))

\* A tokenizer that turns punctuation into spaces, as main.py clean_text does
clean_and_tokenize_Spaced(t) ==
    IF t = <<>> THEN <<>> ELSE FindWords(PunctuationToSpace(t))

\* levl2.py:17-27
clean_and_tokenize(t) ==
    IF t = <<>> THEN <<>> ELSE FindWords(RemovePunctuation(t))

\* SpellChecker.edit_distance_1: deletes, transposes, replaces, inserts
Edit1(w) ==
    LET n == Len(w)
    IN  {SubSeq(w, 1, i - 1) \o SubSeq(w, i + 1, n) : i \in 1..n}
        \cup {SubSeq(w, 1, i - 1) \o <<w[i + 1], w[i]>> \o SubSeq(w, i + 2, n) :
                 i \in 1..(n - 1)}
        \cup {[w EXCEPT ![i] = c] : i \in 1..n, c \in SpellLetters}
        \cup {SubSeq(w, 1, i) \o <<c>> \o SubSeq(w, i + 1, n) :
                 i \in 0..n, c \in SpellLetters}

\* SpellChecker.edit_distance_2
Edit2(w) == UNION {Edit1(v) : v \in Edit1(w)}

\* the most frequent of the candidates
MostFrequent(cands, dict) ==
    dict[CHOOSE i \in DOMAIN dict :
            dict[i] \in cands /\ \A j \in 1..(i - 1) : dict[j] \notin cands]

\* levl2.py:41-42  SpellChecker().correction(word): the word when known, else the
\* most frequent known word one edit away, else two edits away, else None
SpellCorrection(w, dict) ==
    LET known == Range(dict)
    IN  IF w \in known THEN Str(w)
        ELSE LET near == Edit1(w) \cap known
             IN  IF near # {} THEN Str(MostFrequent(near, dict))
                 ELSE LET far == Edit2(w) \cap known
                      IN  IF far # {} THEN Str(MostFrequent(far, dict)) ELSE None

\* A spell check that never consults the lexicon
spell_check_strict_NoLexicon(word, terms, dict) ==
    LET corrected == SpellCorrection(Lower(word), dict)
    IN  IF Truthy(corrected) THEN corrected.text ELSE word

\* levl2.py:30-43
spell_check_strict(word, terms, dict) ==
    IF terms # {} /\ Lower(word) \in terms
    THEN word
    ELSE LET corrected == SpellCorrection(Lower(word), dict)
         IN  IF Truthy(corrected) THEN corrected.text ELSE word

\* A join that puts nothing between the tokens
RECURSIVE Join_NoSeparator(_)
Join_NoSeparator(tokens) ==
    IF tokens = <<>> THEN <<>> ELSE Head(tokens) \o Join_NoSeparator(Tail(tokens))

\* levl2.py:79  ' '.join(corrected_words)
RECURSIVE Join(_)
Join(tokens) ==
    IF tokens = <<>> THEN <<>>
    ELSE IF Len(tokens) = 1 THEN Head(tokens)
    ELSE Head(tokens) \o <<" ">> \o Join(Tail(tokens))

CtIdle ==
    /\ ct_text = <<>>
    /\ medical_terms = {}
    /\ spell_words = <<>>
    /\ words = <<>>
    /\ original_words = <<>>
    /\ corrected_words = <<>>
    /\ has_corrections = FALSE
    /\ original_idx = 0
    /\ word_idx = 1
    /\ ct_pc = "idle"
    /\ corrected_text = <<>>
    /\ pass = 1
    /\ first_text = <<>>
    /\ first_flag = FALSE
    /\ emitted = <<>>

\* levl2.py:50-56  entry of correct_text
CtInit ==
    /\ ct_text \in Texts
    /\ medical_terms \in Lexicons
    /\ spell_words \in SpellDictionaries
    /\ words = clean_and_tokenize(ct_text)
    /\ original_words = FindNonSpace(ct_text)
    /\ corrected_words = <<>>
    /\ has_corrections = FALSE
    /\ original_idx = 0
    /\ word_idx = 1
    /\ ct_pc = "walk"
    /\ corrected_text = <<>>
    /\ pass = 1
    /\ first_text = <<>>
    /\ first_flag = FALSE
    /\ emitted = <<>>

\* levl2.py:59  the while condition, for the word at word_idx
Unmatched ==
    /\ original_idx < Len(original_words)
    /\ Lower(StripNonWord(original_words[original_idx + 1])) # Lower(words[word_idx])

InWords == ct_pc = "walk" /\ word_idx <= Len(words)

\* levl2.py:59-61  copy an original token that is not the current word
CtCopyUnmatched ==
    /\ InWords
    /\ Unmatched
    /\ corrected_words' = Append(corrected_words, original_words[original_idx + 1])
    /\ original_idx' = original_idx + 1
    /\ UNCHANGED <<notCtVars, ct_text, medical_terms, spell_words, words, original_words,
                   has_corrections, word_idx, ct_pc, corrected_text, pass, first_text,
                   first_flag, emitted>>

\* the original token under the cursor, when there is one
TokenAtCursor ==
    IF original_idx < Len(original_words)
    THEN Str(original_words[original_idx + 1]) ELSE None

\* levl2.py:64-68,72  the spell check changed the word: emit the correction
CtEmitCorrection ==
    /\ InWords
    /\ ~Unmatched
    /\ LET word == words[word_idx]
           corrected_word == spell_check_strict(word, medical_terms, spell_words)
       IN  /\ Lower(corrected_word) # Lower(word)
           /\ has_corrections' = TRUE
           /\ corrected_words' = Append(corrected_words, corrected_word)
           /\ emitted' = Append(emitted, [word |-> word, original |-> TokenAtCursor,
                                          output |-> corrected_word, flagged |-> TRUE])
    /\ original_idx' = original_idx + 1
    /\ word_idx' = word_idx + 1
    /\ UNCHANGED <<notCtVars, ct_text, medical_terms, spell_words, words, original_words,
                   ct_pc, corrected_text, pass, first_text, first_flag>>

\* levl2.py:64-66,69-72  no change: emit original_words[original_idx], which
\* raises IndexError when the cursor is at the end of original_words
CtEmitOriginal ==
    /\ InWords
    /\ ~Unmatched
    /\ LET word == words[word_idx]
           corrected_word == spell_check_strict(word, medical_terms, spell_words)
       IN  /\ Lower(corrected_word) = Lower(word)
           /\ IF original_idx < Len(original_words)
              THEN /\ corrected_words' =
                         Append(corrected_words, original_words[original_idx + 1])
                   /\ emitted' = Append(emitted,
                         [word |-> word, original |-> TokenAtCursor,
                          output |-> original_words[original_idx + 1],
                          flagged |-> FALSE])
                   /\ original_idx' = original_idx + 1
                   /\ word_idx' = word_idx + 1
                   /\ ct_pc' = ct_pc
              ELSE /\ ct_pc' = "raised"
                   /\ UNCHANGED <<corrected_words, emitted, original_idx, word_idx>>
    /\ UNCHANGED <<notCtVars, ct_text, medical_terms, spell_words, words, original_words,
                   has_corrections, corrected_text, pass, first_text, first_flag>>

\* levl2.py:75-77  append a remaining original token
CtAppendRemaining ==
    /\ ct_pc = "walk"
    /\ word_idx > Len(words)
    /\ original_idx < Len(original_words)
    /\ corrected_words' = Append(corrected_words, original_words[original_idx + 1])
    /\ original_idx' = original_idx + 1
    /\ UNCHANGED <<notCtVars, ct_text, medical_terms, spell_words, words, original_words,
                   has_corrections, word_idx, ct_pc, corrected_text, pass, first_text,
                   first_flag, emitted>>

\* levl2.py:79-80  join and return
CtReturn ==
    /\ ct_pc = "walk"
    /\ word_idx > Len(words)
    /\ original_idx >= Len(original_words)
    /\ corrected_text' = Join(corrected_words)
    /\ ct_pc' = "returned"
    /\ UNCHANGED <<notCtVars, ct_text, medical_terms, spell_words, words, original_words,
                   corrected_words, has_corrections, original_idx, word_idx, pass,
                   first_text, first_flag, emitted>>

\* levl2.py:45-56  correct_text is called again, on the text it returned, with
\* the same lexicon and the same dictionary
CtCallAgain ==
    /\ ct_pc = "returned"
    /\ pass = 1
    /\ first_text' = corrected_text
    /\ first_flag' = has_corrections
    /\ pass' = 2
    /\ ct_text' = corrected_text
    /\ words' = clean_and_tokenize(corrected_text)
    /\ original_words' = FindNonSpace(corrected_text)
    /\ corrected_words' = <<>>
    /\ has_corrections' = FALSE
    /\ original_idx' = 0
    /\ word_idx' = 1
    /\ ct_pc' = "walk"
    /\ corrected_text' = <<>>
    /\ emitted' = <<>>
    /\ UNCHANGED <<notCtVars, medical_terms, spell_words>>

CtNext ==
    \/ CtCopyUnmatched
    \/ CtEmitCorrection
    \/ CtEmitOriginal
    \/ CtAppendRemaining
    \/ CtReturn
    \/ CtCallAgain

-----------------------------------------------------------------------------
(* Code resolver: src/icd10.py:5-53                                         *)

MaxIcdTextLen == 3   \* characters in the text handed to extract_icd_code
MaxRows == 2         \* rows of the ICD-10 table

IcdTextChars == {"a", "b", "B", "c", " "}

IcdTexts == UNION {[1..n -> IcdTextChars] : n \in 0..MaxIcdTextLen}

\* Rows of the ICD-10 table: Level-3 Code, Level-3 Desc
IcdRowPool ==
    { [code |-> "K1", desc |-> <<"a">>],
      [code |-> "K2", desc |-> <<"A", "b">>],
      [code |-> "K3", desc |-> <<"b">>],
      [code |-> "K4", desc |-> <<"a", "b">>] }

IcdTables == UNION {[1..n -> IcdRowPool] : n \in 0..MaxRows}

\* icd10.py:17-20  one row put into the dict: a new key is appended, an existing
\* key keeps its place and takes the new value
PutRow(dict, row) ==
    LET key == Lower(row.desc)
        entry == [key |-> key, code |-> row.code, desc |-> row.desc]
    IN  IF \E i \in DOMAIN dict : dict[i].key = key
        THEN [i \in DOMAIN dict |-> IF dict[i].key = key THEN entry ELSE dict[i]]
        ELSE Append(dict, entry)

\* icd10.py:5-22  load_icd10_codes: rows with an empty description are dropped
RECURSIVE load_icd10_codes(_)
load_icd10_codes(rows) ==
    IF rows = <<>> THEN <<>>
    ELSE LET dict == load_icd10_codes(SubSeq(rows, 1, Len(rows) - 1))
             row == rows[Len(rows)]
         IN  IF row.desc = <<>> THEN dict ELSE PutRow(dict, row)

\* icd10.py:25-34
icd_clean_and_tokenize(t) ==
    IF t = <<>> THEN <<>> ELSE FindWords(Lower(RemovePunctuation(t)))

\* A match that needs the word to be the whole description
WordMatches_Whole(word, desc) == word = desc

\* icd10.py:49  `word in desc`
WordMatches(word, desc) == IsSubstring(word, desc)

NoPair == [code |-> "None", desc |-> <<>>]

IcdIdle ==
    /\ icd10_dict = <<>>
    /\ icd_text = <<>>
    /\ icd_words = <<>>
    /\ icd_word_idx = 1
    /\ icd_desc_idx = 1
    /\ icd_pc = "idle"
    /\ icd_result = NoPair

\* icd10.py:43  entry of extract_icd_code
IcdInit ==
    /\ icd10_dict \in {load_icd10_codes(rows) : rows \in IcdTables}
    /\ icd_text \in IcdTexts
    /\ icd_words = icd_clean_and_tokenize(icd_text)
    /\ icd_word_idx = 1
    /\ icd_desc_idx = 1
    /\ icd_pc = "scan"
    /\ icd_result = NoPair

OnPair ==
    /\ icd_pc = "scan"
    /\ icd_word_idx <= Len(icd_words)
    /\ icd_desc_idx <= Len(icd10_dict)

\* icd10.py:47-49  the word is not in this description: next description
IcdNextDesc ==
    /\ OnPair
    /\ ~WordMatches(icd_words[icd_word_idx], icd10_dict[icd_desc_idx].key)
    /\ icd_desc_idx' = icd_desc_idx + 1
    /\ UNCHANGED <<notIcdVars, icd10_dict, icd_text, icd_words, icd_word_idx, icd_pc,
                   icd_result>>

\* icd10.py:49-50  the word is in this description: return its pair
IcdReturnMatch ==
    /\ OnPair
    /\ WordMatches(icd_words[icd_word_idx], icd10_dict[icd_desc_idx].key)
    /\ icd_result' = [code |-> icd10_dict[icd_desc_idx].code,
                      desc |-> icd10_dict[icd_desc_idx].desc]
    /\ icd_pc' = "done"
    /\ UNCHANGED <<notIcdVars, icd10_dict, icd_text, icd_words, icd_word_idx,
                   icd_desc_idx>>

\* icd10.py:46-47  the descriptions are exhausted: next word
IcdNextWord ==
    /\ icd_pc = "scan"
    /\ icd_word_idx <= Len(icd_words)
    /\ icd_desc_idx > Len(icd10_dict)
    /\ icd_word_idx' = icd_word_idx + 1
    /\ icd_desc_idx' = 1
    /\ UNCHANGED <<notIcdVars, icd10_dict, icd_text, icd_words, icd_pc, icd_result>>

\* icd10.py:53  no word matched: return None, None
IcdReturnNone ==
    /\ icd_pc = "scan"
    /\ icd_word_idx > Len(icd_words)
    /\ icd_result' = NoPair
    /\ icd_pc' = "done"
    /\ UNCHANGED <<notIcdVars, icd10_dict, icd_text, icd_words, icd_word_idx,
                   icd_desc_idx>>

IcdNext ==
    \/ IcdNextDesc
    \/ IcdReturnMatch
    \/ IcdNextWord
    \/ IcdReturnNone

-----------------------------------------------------------------------------
(* Specifications: one per component, the others idle                       *)

InitLocator == LocInit /\ BatchIdle /\ CtIdle /\ IcdIdle

SpecLocator == InitLocator /\ [][LocNext]_vars

InitBatch == BatchInit /\ LocIdle /\ CtIdle /\ IcdIdle

SpecBatch == InitBatch /\ [][BatchNext]_vars

InitCorrector == CtInit /\ LocIdle /\ BatchIdle /\ IcdIdle

SpecCorrector == InitCorrector /\ [][CtNext]_vars

InitResolver == IcdInit /\ LocIdle /\ BatchIdle /\ CtIdle

SpecResolver == InitResolver /\ [][IcdNext]_vars

-----------------------------------------------------------------------------
(* Properties of the fallback coordinator and the batch driver              *)

RowsOf(f) == {i \in DOMAIN saved : saved[i][1] = f}

Last(seq) == seq[Len(seq)]

\* C2 as stated: once the batch is done, the collected output holds exactly one
\* record per input image file, and a file whose processing raised has a row
\* carrying the sentinel diagnosis text.
C2_Original ==
    drv_pc = "done"
    => \A f \in image_files :
          /\ Cardinality(RowsOf(f)) = 1
          /\ img_pc[f] = "raised"
               => \E i \in RowsOf(f) : saved[i][2] = Str(NoDiagnosisFound)

\* C3: a call of steps 1-3 that raises is caught (control is in the OCR
\* fallback, or process_image returned from it), and process_image raises only
\* when a call of the OCR fallback raised.
C3_Caught ==
    \A f \in AllFiles :
       /\ (failures[f] # <<>> /\ Last(failures[f]) \in
              {"layout", "keyword", "ner", "layout_retry", "ner_retry"})
            => img_pc[f] \in {"ocr", "ocr_ner", "returned"}
       /\ img_pc[f] = "raised"
            => (failures[f] # <<>> /\ Last(failures[f]) \in {"ocr", "ocr_ner"})

C3_Witness ==
    \E f \in AllFiles :
       /\ img_pc[f] = "returned"
       /\ failures[f] = <<"ner_retry">>

\* C4 as stated: when the keyword scan found nothing and the OCR fallback is
\* reached, entity extraction has been attempted exactly once.
C4_Original ==
    \A f \in AllFiles :
       (img_pc[f] = "ocr" /\ kw_none[f]) => ner_calls[f] = 1

\* C4 amended: when the keyword scan found nothing and the OCR fallback is
\* reached, entity extraction has been attempted once or twice: twice exactly
\* when the first attempt returned the sentinel or a text holding the label
\* phrase, the second layout call returned and the second attempt raised.
C4_Amended ==
    \A f \in AllFiles :
       (img_pc[f] = "ocr" /\ kw_none[f])
       => /\ ner_calls[f] \in {1, 2}
          /\ ner_calls[f] = 2 <=> Last(failures[f]) = "ner_retry"
          /\ ner_calls[f] = 2 =>
                \/ first_ner[f] = Str(NoDiagnosisFound)
                \/ IsSubstring(LabelPhrase, first_ner[f].text)

C4_Witness ==
    \E f \in AllFiles :
       /\ img_pc[f] = "ocr"
       /\ kw_none[f]
       /\ ner_calls[f] = 2

-----------------------------------------------------------------------------
(* Properties of the corrector                                              *)

\* C5: correct_text never raises: the cursor stays within original_words, and
\* whenever a word is about to be emitted the cursor is on an original token.
C5_InBounds ==
    /\ ct_pc # "raised"
    /\ original_idx <= Len(original_words)
    /\ (InWords /\ ~Unmatched) => original_idx < Len(original_words)

\* a punctuation-only token was copied and the last original token was then read
C5_Witness ==
    /\ ct_pc = "returned"
    /\ pass = 1
    /\ emitted # <<>>
    /\ \E i \in DOMAIN original_words : StripNonWord(original_words[i]) = <<>>
    /\ ~Last(emitted).flagged
    /\ Last(emitted).output = Last(original_words)
    /\ Len(corrected_words) = Len(original_words)

\* C6 as stated: a token whose lowercase form is in the lexicon is emitted in
\* lowercase and does not set has_corrections.
C6_Original ==
    \A i \in DOMAIN emitted :
       Lower(emitted[i].word) \in medical_terms
       => (emitted[i].output = Lower(emitted[i].word) /\ ~emitted[i].flagged)

\* C6 amended: a token whose lowercase form is in the lexicon is emitted as the
\* original whitespace-delimited token, verbatim (case and attached punctuation
\* kept), and does not set has_corrections.
C6_Amended ==
    \A i \in DOMAIN emitted :
       Lower(emitted[i].word) \in medical_terms
       => /\ Str(emitted[i].output) = emitted[i].original
          /\ StripNonWord(emitted[i].output) = emitted[i].word
          /\ ~emitted[i].flagged

\* a capitalised lexicon term was emitted
C6_Witness ==
    \E i \in DOMAIN emitted :
       /\ Lower(emitted[i].word) \in medical_terms
       /\ emitted[i].word # Lower(emitted[i].word)
       /\ ct_pc = "returned"
       /\ ~has_corrections

-----------------------------------------------------------------------------
(* Properties of the code resolver                                          *)

PairOf(entry) == [code |-> entry.code, desc |-> entry.desc]

\* the pair returned is that of description j or of an earlier description, one
\* that contains the token
ReturnsAtOrBefore(token, j) ==
    \E k \in 1..j :
       /\ icd_result = PairOf(icd10_dict[k])
       /\ IsSubstring(token, icd10_dict[k].key)

\* C7 as stated: for every description D of the lexicon and every token T of
\* the text that is a substring of lowercase(D), the pair returned is that of D
\* or of an earlier description that contains T.
C7_Original ==
    icd_pc = "done"
    => \A i \in DOMAIN icd_words : \A j \in DOMAIN icd10_dict :
          IsSubstring(icd_words[i], icd10_dict[j].key)
          => ReturnsAtOrBefore(icd_words[i], j)

\* no token before the i-th is a substring of any description
FirstMatchingToken(i) ==
    \A h \in 1..(i - 1) : \A j \in DOMAIN icd10_dict :
       ~IsSubstring(icd_words[h], icd10_dict[j].key)

\* C7 amended: the law holds for the first token of the text that is a
\* substring of any description; when no token is, (None, None) is returned.
C7_Amended ==
    icd_pc = "done"
    => /\ \A i \in DOMAIN icd_words : \A j \in DOMAIN icd10_dict :
             (IsSubstring(icd_words[i], icd10_dict[j].key) /\ FirstMatchingToken(i))
             => ReturnsAtOrBefore(icd_words[i], j)
       /\ FirstMatchingToken(Len(icd_words) + 1) => icd_result = NoPair

\* the second token matched, as a proper substring of the second description
C7_Witness ==
    /\ icd_pc = "done"
    /\ icd_word_idx = 2
    /\ icd_desc_idx = 2
    /\ icd_result # NoPair
    /\ icd_words[2] # icd10_dict[2].key

=============================================================================
